---- MODULE Spec2Model ----
(***************************************************************************)
(* Model of the butterfly rumor snapshot file (rumor/dat_file.rs), of the  *)
(* expiration loop (server/expire.rs) and of the package download command  *)
(* (command/package/download.rs).                                          *)
(*                                                                         *)
(* The snapshot is a sequence of bytes: one version byte, a header body of *)
(* little-endian u64 section lengths, then the sections, each a sequence   *)
(* of frames (8-byte little-endian payload length, then the payload).      *)
(***************************************************************************)
EXTENDS Integers, Sequences, FiniteSets, TLC

\* ------------------------------------------------------------------ bounds
\* Member ids are 1..MaxMembers.
MaxMembers == 2
\* Records (memberships plus rumors) a server holds when a snapshot is taken.
MaxRecords == 2
\* The clock runs over 0..MaxTime; expiration timestamps lie in that range.
MaxTime == 2

\* Fields a later version of the header has after the seven of version 2.
MaxExtraFields == 1

\* --------------------------------------------------------------- constants
HEADER_VERSION == 2
HEADER_VERSION_1_SIZE == 48
HEADER_VERSION_2_SIZE == 64

\* Timing::suspicion_timeout_duration / departure_timeout_duration, in clock units.
suspicion_timeout == 1
departure_timeout == 1

\* ------------------------------------------------------------------- types
MemberIds == 1..MaxMembers
Keys == {1}
Times == 0..MaxTime
Health == {"Alive", "Suspect", "Confirmed", "Departed"}

\* MESSAGE_ID of each persisted fact type.
MembershipId == "membership"
\* The order in which DatFile::write serializes the rumor stores.
RumorOrder == <<"service", "service-config", "service-file",
                "election", "election-update", "departure">>
RumorTypes == {RumorOrder[i] : i \in 1..Len(RumorOrder)}
\* Mutant: the membership section comes after the rumor sections.
SectionOrder_rumors_first == RumorOrder \o <<MembershipId>>

\* The order of the sections in the file: the membership table, then the stores.
SectionOrder == <<MembershipId>> \o RumorOrder
SectionIds == {SectionOrder[i] : i \in 1..Len(SectionOrder)}

\* An optional expiration timestamp: <<>> (none) or <<t>>.
Expirations == {<<>>} \cup {<<t>> : t \in Times}
Rumors == [member_id : MemberIds, key : Keys, expiration : Expirations]
Memberships == [member : MemberIds, health : Health]

\* ----------------------------------------------------------------- helpers
RECURSIVE Perms(_)
Perms(S) ==
  IF S = {} THEN {<<>>}
  ELSE UNION {{<<x>> \o p : p \in Perms(S \ {x})} : x \in S}

RECURSIVE Flatten(_)
Flatten(ss) == IF ss = <<>> THEN <<>> ELSE Head(ss) \o Flatten(Tail(ss))

RECURSIVE SumSeq(_)
SumSeq(s) == IF s = <<>> THEN 0 ELSE Head(s) + SumSeq(Tail(s))

Zeros(n) == [i \in 1..n |-> 0]

\* bytes[from..to) with 0-based offsets, as Rust slices.
Slice(bytes, from, to) == SubSeq(bytes, from + 1, to)

\* The file `f` with `bytes` written at 0-based offset `pos` (File::write after a seek).
WriteAt(f, pos, bytes) ==
  LET end == pos + Len(bytes)
      n == IF end > Len(f) THEN end ELSE Len(f)
  IN [i \in 1..n |->
        IF i > pos /\ i <= end THEN bytes[i - pos]
        ELSE IF i <= Len(f) THEN f[i] ELSE 0]

\* ------------------------------------------------------- byteorder::LittleEndian
\* u64 values of the model stay below 2^24: the high five bytes are zero on write,
\* and a value read with a non-zero high byte is at least U64Big.
U64Big == 256 * 65536

LE_write_u64(n) ==
  <<n % 256, (n \div 256) % 256, (n \div 65536) % 256, 0, 0, 0, 0, 0>>

LE_read_u64(b) ==
  IF \E i \in 4..8 : b[i] # 0 THEN U64Big
  ELSE b[1] + 256 * b[2] + 65536 * b[3]

\* ------------------------------------------- Message::write_to_bytes / from_bytes
HealthCode(h) ==
  CASE h = "Alive" -> 0 [] h = "Suspect" -> 1 [] h = "Confirmed" -> 2 [] h = "Departed" -> 3

HealthOfCode(c) ==
  CASE c = 0 -> "Alive" [] c = 1 -> "Suspect" [] c = 2 -> "Confirmed" [] c = 3 -> "Departed"

TypeCode(t) == CHOOSE i \in 1..Len(RumorOrder) : RumorOrder[i] = t

\* Membership: the member's id and its health.
Membership_write_to_bytes(m) == <<m.member, HealthCode(m.health)>>

Membership_decodes(b) == Len(b) = 2 /\ b[1] \in MemberIds /\ b[2] \in 0..3

Membership_from_bytes(b) == [member |-> b[1], health |-> HealthOfCode(b[2])]

\* A rumor: its type, the originating member, the key, the optional expiration.
Rumor_write_to_bytes(t, r) == <<TypeCode(t), r.member_id, r.key>> \o r.expiration

Rumor_decodes(t, b) ==
  /\ Len(b) \in {3, 4}
  /\ b[1] = TypeCode(t)
  /\ b[2] \in MemberIds
  /\ b[3] \in Keys
  /\ Len(b) = 4 => b[4] \in Times

Rumor_from_bytes(b) ==
  [member_id |-> b[2], key |-> b[3],
   expiration |-> IF Len(b) = 4 THEN <<b[4]>> ELSE <<>>]

\* ------------------------------------------------------------------ Header
\* Header { offsets }: a map from MESSAGE_ID to section length.
Header_default == << >>

Header_insert(h, id, offset) ==
  [x \in (DOMAIN h) \cup {id} |-> IF x = id THEN offset ELSE h[x]]

\* offset_for_rumor / member_offset panic on a missing entry.
Header_has(h, id) == id \in DOMAIN h

\* Mutant: the size of the latest header is taken to be that of version 2.
Header_from_bytes_sized(bytes, version) ==
  IF version = 1
  THEN [size |-> HEADER_VERSION_1_SIZE,
        header |-> [id \in SectionIds |->
           IF id = "departure" THEN 0
           ELSE LE_read_u64(Slice(bytes, 8 * ((CHOOSE k \in 1..7 : SectionOrder[k] = id) - 1),
                                         8 * (CHOOSE k \in 1..7 : SectionOrder[k] = id)))]]
  ELSE [size |-> HEADER_VERSION_2_SIZE,
        header |-> [id \in SectionIds |->
           LE_read_u64(Slice(bytes, 8 * (CHOOSE k \in 1..7 : SectionOrder[k] = id),
                                    8 + 8 * (CHOOSE k \in 1..7 : SectionOrder[k] = id)))]]

\* Mutant: a version-1 header gets the six entries it was written with and no more.
Header_from_bytes_as_written(bytes, version) ==
  IF version = 1
  THEN [size |-> HEADER_VERSION_1_SIZE,
        header |-> [id \in SectionIds \ {"departure"} |->
           LE_read_u64(Slice(bytes, 8 * ((CHOOSE k \in 1..7 : SectionOrder[k] = id) - 1),
                                    8 * (CHOOSE k \in 1..7 : SectionOrder[k] = id)))]]
  ELSE [size |-> LE_read_u64(Slice(bytes, 0, 8)),
        header |-> [id \in SectionIds |->
           LE_read_u64(Slice(bytes, 8 * (CHOOSE k \in 1..7 : SectionOrder[k] = id),
                                    8 + 8 * (CHOOSE k \in 1..7 : SectionOrder[k] = id)))]]

\* Header::from_bytes: the size of the header as written and the section lengths.
Header_from_bytes(bytes, version) ==
  IF version = 1
  THEN [size |-> HEADER_VERSION_1_SIZE,
        header |-> [id \in SectionIds |->
           CASE id = "membership"      -> LE_read_u64(Slice(bytes, 0, 8))
             [] id = "service"         -> LE_read_u64(Slice(bytes, 8, 16))
             [] id = "service-config"  -> LE_read_u64(Slice(bytes, 16, 24))
             [] id = "service-file"    -> LE_read_u64(Slice(bytes, 24, 32))
             [] id = "election"        -> LE_read_u64(Slice(bytes, 32, 40))
             [] id = "election-update" -> LE_read_u64(Slice(bytes, 40, 48))
             [] id = "departure"       -> 0]]
  ELSE [size |-> LE_read_u64(Slice(bytes, 0, 8)),
        header |-> [id \in SectionIds |->
           CASE id = "membership"      -> LE_read_u64(Slice(bytes, 8, 16))
             [] id = "service"         -> LE_read_u64(Slice(bytes, 16, 24))
             [] id = "service-config"  -> LE_read_u64(Slice(bytes, 24, 32))
             [] id = "service-file"    -> LE_read_u64(Slice(bytes, 32, 40))
             [] id = "election"        -> LE_read_u64(Slice(bytes, 40, 48))
             [] id = "election-update" -> LE_read_u64(Slice(bytes, 48, 56))
             [] id = "departure"       -> LE_read_u64(Slice(bytes, 56, 64))]]

\* Mutant: the Election and ElectionUpdate lengths are written in each other's field.
Header_write_to_bytes_swapped(h) ==
  LE_write_u64(HEADER_VERSION_2_SIZE)
    \o LE_write_u64(h["membership"])
    \o LE_write_u64(h["service"])
    \o LE_write_u64(h["service-config"])
    \o LE_write_u64(h["service-file"])
    \o LE_write_u64(h["election-update"])
    \o LE_write_u64(h["election"])
    \o LE_write_u64(h["departure"])

Header_write_to_bytes(h) ==
  LE_write_u64(HEADER_VERSION_2_SIZE)
    \o LE_write_u64(h["membership"])
    \o LE_write_u64(h["service"])
    \o LE_write_u64(h["service-config"])
    \o LE_write_u64(h["service-file"])
    \o LE_write_u64(h["election"])
    \o LE_write_u64(h["election-update"])
    \o LE_write_u64(h["departure"])

\* ------------------------------------------------------------ server state
\* MemberList: member id -> health and the time the member has held it.
\* RumorStore<T>: the rumors held, at most one per (member_id, key).
EmptyMemberList == << >>
EmptyStores == [t \in RumorTypes |-> {}]

\* Server::insert_member: the membership enters the table, its health just set.
insert_member(ml, m) ==
  [id \in (DOMAIN ml) \cup {m.member} |->
     IF id = m.member THEN [health |-> m.health, time_in_state |-> 0] ELSE ml[id]]

\* Server::insert_service, insert_service_config, ...: RumorStore::insert.
insert_rumor(store, r) ==
  {x \in store : ~(x.member_id = r.member_id /\ x.key = r.key)} \cup {r}

RECURSIVE insert_members(_, _)
insert_members(ml, ms) ==
  IF ms = <<>> THEN ml ELSE insert_members(insert_member(ml, Head(ms)), Tail(ms))

RECURSIVE insert_rumors(_, _)
insert_rumors(store, rs) ==
  IF rs = <<>> THEN store ELSE insert_rumors(insert_rumor(store, Head(rs)), Tail(rs))

\* The memberships of a table, as with_memberships_mlr hands them to the writer.
MembershipsOf(ml) == {[member |-> id, health |-> ml[id].health] : id \in DOMAIN ml}

\* The table's content without the time each health has been held.
HealthOf(ml) == [id \in DOMAIN ml |-> ml[id].health]

\* ------------------------------------------------------------ DatFile: read
\* The DatFile's reader: the bytes of the opened file and the cursor in them.
read_exact_ok(f, pos, n) == pos + n <= Len(f)

decodes(id, b) ==
  IF id = MembershipId THEN Membership_decodes(b) ELSE Rumor_decodes(id, b)

from_bytes(id, b) ==
  IF id = MembershipId THEN Membership_from_bytes(b) ELSE Rumor_from_bytes(b)

\* Mutant: the loop goes on until more than the declared length has been read.
section_done_past(bytes_read, offset) == bytes_read > offset

\* `if bytes_read >= offset { break; }`
section_done(bytes_read, offset) == bytes_read >= offset

\* The loop of read_and_process; `offset` is the section's declared length.
\* rumor_buf.resize(rumor_size) is taken to succeed: a length beyond the end of
\* the file, however large, makes read_exact fail.
RECURSIVE read_and_process_loop(_, _, _, _, _, _, _)
read_and_process_loop(f, pos, offset, id, bytes_read, items, iters) ==
  IF section_done(bytes_read, offset)
  THEN [ok |-> TRUE, err |-> "none", pos |-> pos, items |-> items,
        bytes_read |-> bytes_read, iters |-> iters]
  ELSE IF ~read_exact_ok(f, pos, 8)
  THEN [ok |-> FALSE, err |-> "DatFileIO", pos |-> pos, items |-> items,
        bytes_read |-> bytes_read, iters |-> iters + 1]
  ELSE
    LET rumor_size == LE_read_u64(Slice(f, pos, pos + 8))
    IN IF ~read_exact_ok(f, pos + 8, rumor_size)
       THEN [ok |-> FALSE, err |-> "DatFileIO", pos |-> pos + 8, items |-> items,
             bytes_read |-> bytes_read, iters |-> iters + 1]
       ELSE
         LET rumor_buf == Slice(f, pos + 8, pos + 8 + rumor_size)
             read == bytes_read + 8 + rumor_size
         IN IF ~decodes(id, rumor_buf)
            THEN [ok |-> FALSE, err |-> "Decode", pos |-> pos + 8 + rumor_size,
                  items |-> items, bytes_read |-> read, iters |-> iters + 1]
            ELSE read_and_process_loop(f, pos + 8 + rumor_size, offset, id, read,
                                       Append(items, from_bytes(id, rumor_buf)),
                                       iters + 1)

read_and_process(f, pos, offset, id) ==
  read_and_process_loop(f, pos, offset, id, 0, <<>>, 0)

\* read_members / read_rumors::<T>: the section's records, or the error.
read_rumors(f, pos, header, id) == read_and_process(f, pos, header[id], id)

\* Mutant: the first section is taken to start after a version-2 header.
member_offset_latest(header_size) == 1 + HEADER_VERSION_2_SIZE

\* DatFile::member_offset: where the first section starts.
member_offset(header_size) == 1 + header_size

\* read_header: the version byte, the header body, the seek to the first section.
read_header(f) ==
  IF ~read_exact_ok(f, 0, 1)
  THEN [ok |-> FALSE, version |-> 0, header |-> Header_default, header_size |-> 0, pos |-> 0]
  ELSE
    LET version == f[1]
        n == IF version = 1 THEN HEADER_VERSION_1_SIZE ELSE HEADER_VERSION_2_SIZE
    IN IF ~read_exact_ok(f, 1, n)
       THEN [ok |-> FALSE, version |-> version, header |-> Header_default,
             header_size |-> 0, pos |-> 1]
       ELSE
         LET hb == Header_from_bytes(Slice(f, 1, 1 + n), version)
         IN [ok |-> TRUE, version |-> version, header |-> hb.header,
             header_size |-> hb.size, pos |-> member_offset(hb.size)]

\* Mutant: the Departure section is read for version 1 as well.
SectionsFor_from_v1(version) ==
  IF version >= 1 THEN SectionOrder ELSE SubSeq(SectionOrder, 1, 6)

\* The sections read_into_mlr decodes for a file of this version.
SectionsFor(version) ==
  IF version >= 2 THEN SectionOrder ELSE SubSeq(SectionOrder, 1, 6)

\* Mutant: the records decoded before the failing frame are inserted.
section_failed_partial(st, id, r) ==
  [st EXCEPT !.ok = FALSE, !.err = r.err, !.failed = id, !.pos = r.pos,
             !.iters = Append(st.iters, r.iters),
             !.member_list = IF id = MembershipId
                             THEN insert_members(st.member_list, r.items)
                             ELSE st.member_list,
             !.stores = IF id = MembershipId THEN st.stores
                        ELSE [st.stores EXCEPT ![id] = insert_rumors(st.stores[id], r.items)]]

\* `self.read_rumors::<T>()?` fails: read_into_mlr returns the error, the Vec of
\* the section is dropped with nothing of it inserted.
section_failed(st, id, r) ==
  [st EXCEPT !.ok = FALSE, !.err = r.err, !.failed = id, !.pos = r.pos,
             !.iters = Append(st.iters, r.iters)]

\* The for loops of read_into_mlr: each section is decoded whole, then inserted.
RECURSIVE read_sections(_, _, _, _)
read_sections(f, header, ids, st) ==
  IF ids = <<>> THEN st
  ELSE
    LET id == Head(ids)
        r == read_rumors(f, st.pos, header, id)
    IN IF ~r.ok
       THEN section_failed(st, id, r)
       ELSE read_sections(f, header, Tail(ids),
              [st EXCEPT
                 !.pos = r.pos,
                 !.member_list = IF id = MembershipId
                                 THEN insert_members(st.member_list, r.items)
                                 ELSE st.member_list,
                 !.stores = IF id = MembershipId THEN st.stores
                            ELSE [st.stores EXCEPT ![id] = insert_rumors(st.stores[id], r.items)],
                 !.sections = Append(st.sections, id),
                 !.consumed = Append(st.consumed, r.bytes_read),
                 !.iters = Append(st.iters, r.iters)])

\* read_into_mlr on the file `f`, into a server holding `ml` and `rs`.
read_into_mlr(f, ml, rs) ==
  LET h == read_header(f)
      st0 == [ok |-> TRUE, err |-> "none", failed |-> "none", pos |-> h.pos,
              start |-> h.pos,
              version |-> h.version, header |-> h.header, header_size |-> h.header_size,
              member_list |-> ml, stores |-> rs,
              sections |-> <<>>, consumed |-> <<>>, iters |-> <<>>]
  IN IF ~h.ok
     THEN [st0 EXCEPT !.ok = FALSE, !.err = "DatFileIO", !.failed = "header"]
     ELSE read_sections(f, h.header, SectionsFor(h.version), st0)

\* ----------------------------------------------------------- DatFile: write
\* The state of one DatFile::write call: the AtomicWriter's temporary file (tmp),
\* the BufWriter over it (buf: bytes not yet handed to the file; cursor: the
\* file's position), the Header being built, the running total of the section
\* being written and the records its iterator still has to yield.
payload_of(id, item) ==
  IF id = MembershipId THEN Membership_write_to_bytes(item)
  ELSE Rumor_write_to_bytes(id, item)

\* BufWriter::write: the bytes are buffered (the model's files are far smaller
\* than the buffer) and the call reports all of them written.
buf_write(w, bytes) == [w EXCEPT !.buf = @ \o bytes]

\* BufWriter::flush: the buffered bytes go to the file at its cursor.
buf_flush(w) ==
  [w EXCEPT !.tmp = WriteAt(w.tmp, w.cursor, w.buf),
            !.cursor = w.cursor + Len(w.buf),
            !.buf = <<>>]

\* BufWriter::seek: flush, then move the file's cursor.
buf_seek(w, pos) == [buf_flush(w) EXCEPT !.cursor = pos]

\* AtomicWriter::new and `let mut header = Header::default()`.
write_new ==
  [tmp |-> <<>>, buf |-> <<>>, cursor |-> 0, header |-> Header_default, total |-> 0]

write_version(w) == buf_write(w, <<HEADER_VERSION>>)

write_header_reserve(w) == buf_write(w, Zeros(HEADER_VERSION_2_SIZE))

\* Mutant: the total counts the payload and forgets the 8-byte length prefix.
write_rumor_payload_only(w, id, item) ==
  LET bytes == payload_of(id, item)
      w1 == buf_write(w, LE_write_u64(Len(bytes)))
      w2 == buf_write(w1, bytes)
  IN [w2 EXCEPT !.total = @ + Len(bytes)]

\* write_member / write_rumor: the length prefix, then the payload; the bytes
\* written are added to the section's total.
write_rumor(w, id, item) ==
  LET bytes == payload_of(id, item)
      w1 == buf_write(w, LE_write_u64(Len(bytes)))
      w2 == buf_write(w1, bytes)
  IN [w2 EXCEPT !.total = @ + 8 + Len(bytes)]

\* `let mut total = 0` of write_member_list_mlr / write_rumor_store.
section_begin(w) == [w EXCEPT !.total = 0]

\* header.insert_member_offset / insert_offset_for_rumor with the section's total.
section_end(w, id) == [w EXCEPT !.header = Header_insert(@, id, w.total)]

RECURSIVE write_all(_, _, _)
write_all(w, id, items) ==
  IF items = <<>> THEN w ELSE write_all(write_rumor(w, id, Head(items)), id, Tail(items))

\* write_member_list_mlr / write_rumor_store, whole: `items` are the records in
\* the order the map's iterator yields them.
write_rumor_store(w, id, items) == section_end(write_all(section_begin(w), id, items), id)

\* Mutant: the seek goes to the start of the file, not past the version byte.
write_seek_to_start(w) == buf_seek(w, 0)

write_seek(w) == buf_seek(w, 1)

write_header(w) == buf_write(w, Header_write_to_bytes(w.header))

write_flush(w) == buf_flush(w)

RECURSIVE write_sections(_, _, _)
write_sections(w, k, order) ==
  IF k > Len(SectionOrder) THEN w
  ELSE write_sections(write_rumor_store(w, SectionOrder[k], order[k]), k + 1, order)

\* The closure of DatFile::write run to its end; `order[k]` is the k-th section's
\* records in the order the map's iterator yields them.
write_closure(order) ==
  write_flush(write_header(write_seek(
    write_sections(write_header_reserve(write_version(write_new)), 1, order))))

\* Mutant: the ServiceConfig section is written from the Service store.
ItemsOf_service_twice(ml, rs, id) ==
  IF id = MembershipId THEN MembershipsOf(ml)
  ELSE IF id = "service-config" THEN rs["service"] ELSE rs[id]

\* The table or store DatFile::write hands to each section's serialization.
ItemsOf(ml, rs, id) == IF id = MembershipId THEN MembershipsOf(ml) ELSE rs[id]

RECURSIVE OrdersUpTo(_, _, _)
OrdersUpTo(ml, rs, k) ==
  IF k = 0 THEN {<<>>}
  ELSE {Append(o, p) : o \in OrdersUpTo(ml, rs, k - 1),
                       p \in Perms(ItemsOf(ml, rs, SectionOrder[k]))}

Orders(ml, rs) == OrdersUpTo(ml, rs, Len(SectionOrder))

\* ------------------------------------------------------------ server states
\* The states a server can be in when a snapshot is taken: at most k records.
RecordOptions ==
  {<<MembershipId, m>> : m \in Memberships}
    \cup {<<t, r>> : t \in RumorTypes, r \in Rumors}

RecordKey(x) ==
  IF x[1] = MembershipId THEN <<x[1], x[2].member, 0>>
  ELSE <<x[1], x[2].member_id, x[2].key>>

RECURSIVE RecordSets(_)
RecordSets(k) ==
  IF k = 0 THEN {{}}
  ELSE LET smaller == RecordSets(k - 1)
       IN smaller \cup
          {s \cup {x} : s \in smaller,
                        x \in RecordOptions}

WellKeyed(s) == \A x \in s, y \in s : RecordKey(x) = RecordKey(y) => x = y

MemberListOf(s) ==
  LET ms == {x[2] : x \in {y \in s : y[1] = MembershipId}}
  IN [id \in {m.member : m \in ms} |->
        [health |-> (CHOOSE m \in ms : m.member = id).health, time_in_state |-> 0]]

StoresOf(s) == [t \in RumorTypes |-> {x[2] : x \in {y \in s : y[1] = t}}]

ServerStates(k) ==
  {[member_list |-> MemberListOf(s), stores |-> StoresOf(s)] :
     s \in {x \in RecordSets(k) : WellKeyed(x)}}

\* ------------------------------------------------------------------- state
VARIABLES
  member_list,  \* Server::member_list
  stores,       \* the six RumorStores of the Server, by MESSAGE_ID
  now,          \* the clock
  expire,       \* the Expire thread: its position in run(), the `now` it captured
  writer,       \* the DatFile::write call in progress
  disk,         \* the bytes of the file at the DatFile's path
  origin,       \* what produced the file at the path
  loaded,       \* the outcome of read_into_mlr into a fresh server
  dat_file,     \* the DatFile::read_or_create call and the DatFile it returns
  hist,         \* history: the file before the write, the server states during it,
                \* the rumors purged and the members swept so far, the last
                \* direct purge_expired call and how often it was repeated
  download      \* the download::start call, the depot it talks to and the artifact cache

vars ==
  <<member_list, stores, now, expire, writer, disk, origin, loaded, dat_file, hist, download>>

NotLoaded ==
  [ok |-> FALSE, err |-> "not-run", failed |-> "none", pos |-> 0, start |-> 0,
   version |-> 0, header |-> Header_default, header_size |-> 0,
   member_list |-> EmptyMemberList, stores |-> EmptyStores,
   sections |-> <<>>, consumed |-> <<>>, iters |-> <<>>]

ExpireIdle == [pc |-> "confirm", k |-> 1, now |-> 0]
WriterIdle ==
  [pc |-> "idle", at |-> "none", sec |-> 1, lock |-> "none", yielded |-> {}, error |-> FALSE,
   tmp |-> <<>>, buf |-> <<>>, cursor |-> 0, header |-> Header_default, total |-> 0,
   ret |-> <<>>, err |-> "none"]
\* No read_or_create call has been made.
NoDatFile ==
  [pc |-> "idle", existed |-> FALSE, before |-> <<>>, reader |-> <<>>, size |-> 0,
   result |-> "none"]
\* No download::start call has been made.
NoDownload == [pc |-> "idle"]
NoHist == [prev |-> <<>>, seen |-> {}, removed |-> {}, swept |-> {}, purged |-> <<>>]

\* ------------------------------------------------- snapshot files (SpecFile)
\* A server state is drawn, a snapshot of it is written to the path (or a
\* version-1 file holding it is put there), and the file is loaded into a fresh
\* server.
FileInit ==
  /\ \E s \in ServerStates(MaxRecords) :
        /\ member_list = s.member_list
        /\ stores = s.stores
  /\ now = 0
  /\ expire = ExpireIdle
  /\ writer = WriterIdle
  /\ disk = <<>>
  /\ origin = "none"
  /\ loaded = NotLoaded
  /\ hist = NoHist
  /\ dat_file = NoDatFile
  /\ download = NoDownload

\* DatFile::write, uninterrupted: the closure, then AtomicWriter's publication.
FileWrite ==
  /\ origin = "none"
  /\ \E order \in Orders(member_list, stores) :
        disk' = write_closure(order).tmp
  /\ origin' = "written"
  /\ UNCHANGED <<member_list, stores, now, expire, writer, loaded, hist, dat_file, download>>

\* A version-1 file of the state: version byte 1, six section lengths, six sections.
V1File(order) ==
  LET w == write_closure(order)
      h == w.header
      body == Slice(w.tmp, 1 + HEADER_VERSION_2_SIZE,
                    Len(w.tmp) - h["departure"])
  IN <<1>> \o LE_write_u64(h["membership"]) \o LE_write_u64(h["service"])
          \o LE_write_u64(h["service-config"]) \o LE_write_u64(h["service-file"])
          \o LE_write_u64(h["election"]) \o LE_write_u64(h["election-update"])
          \o body

FileV1 ==
  /\ origin = "none"
  /\ \E order \in Orders(member_list, stores) :
        disk' = V1File(order)
  /\ origin' = "v1"
  /\ UNCHANGED <<member_list, stores, now, expire, writer, loaded, hist, dat_file, download>>

\* The header field of the k-th section, in a version-2 file.
FieldAt(k) == 1 + 8 * k

\* A written file whose k-th section is declared one byte shorter than its frames.
FileShort ==
  /\ origin = "written"
  /\ loaded = NotLoaded
  /\ \E k \in 1..Len(SectionOrder) :
       LET declared == LE_read_u64(Slice(disk, FieldAt(k), FieldAt(k) + 8))
       IN /\ declared > 0
          /\ disk' = WriteAt(disk, FieldAt(k), LE_write_u64(declared - 1))
  /\ origin' = "short"
  /\ UNCHANGED <<member_list, stores, now, expire, writer, loaded, hist, dat_file, download>>

\* Version bytes other than 1 and 2 that a file can carry.
OtherVersions == {0, 3, 255}

\* A written file whose version byte is replaced by another one.
FileVersion ==
  /\ origin = "written"
  /\ loaded = NotLoaded
  /\ \E v \in OtherVersions : disk' = WriteAt(disk, 0, <<v>>)
  /\ origin' = "versioned"
  /\ UNCHANGED <<member_list, stores, now, expire, writer, loaded, dat_file, hist, download>>

\* The file a later version of the writer would produce: a version byte above 2,
\* the header of version 2 with n more fields after it and its size grown by
\* 8 each, then the sections.
FutureFile(f, v, n, x) ==
  <<v>> \o LE_write_u64(HEADER_VERSION_2_SIZE + 8 * n)
        \o Slice(f, 9, 1 + HEADER_VERSION_2_SIZE)
        \o Flatten([i \in 1..n |-> LE_write_u64(x)])
        \o Slice(f, 1 + HEADER_VERSION_2_SIZE, Len(f))

FileFuture ==
  /\ origin = "written"
  /\ loaded = NotLoaded
  /\ \E v \in OtherVersions \ {0}, n \in 1..MaxExtraFields, x \in {0, 9} :
        disk' = FutureFile(disk, v, n, x)
  /\ origin' = "future"
  /\ UNCHANGED <<member_list, stores, now, expire, writer, loaded, dat_file, hist, download>>

\* DatFile::read, then read_into_mlr on a server that holds nothing yet.
FileLoad ==
  /\ origin # "none"
  /\ loaded = NotLoaded
  /\ loaded' = read_into_mlr(disk, EmptyMemberList, EmptyStores)
  /\ UNCHANGED <<member_list, stores, now, expire, writer, disk, origin, hist, dat_file, download>>

FileNext == FileWrite \/ FileV1 \/ FileShort \/ FileVersion \/ FileFuture \/ FileLoad

SpecFile == FileInit /\ [][FileNext]_vars

\* ------------------------------------------ damaged files (SpecDamaged)
\* A written file that lost its end: the first n bytes are left.
FileTruncate ==
  /\ origin = "written"
  /\ loaded = NotLoaded
  /\ \E n \in 0..(Len(disk) - 1) : disk' = SubSeq(disk, 1, n)
  /\ origin' = "truncated"
  /\ UNCHANGED <<member_list, stores, now, expire, writer, loaded, dat_file, hist, download>>

\* A written file one byte of which, anywhere after the version byte, holds
\* another value.
DamageByte == 99

FileCorrupt ==
  /\ origin = "written"
  /\ loaded = NotLoaded
  /\ \E p \in 1..(Len(disk) - 1) :
        /\ disk[p + 1] # DamageByte
        /\ disk' = WriteAt(disk, p, <<DamageByte>>)
  /\ origin' = "corrupt"
  /\ UNCHANGED <<member_list, stores, now, expire, writer, loaded, dat_file, hist, download>>

DamagedNext == FileWrite \/ FileTruncate \/ FileCorrupt \/ FileLoad

SpecDamaged == FileInit /\ [][DamagedNext]_vars

\* ---------------------------------------------------- claims on SpecFile
Ran == loaded # NotLoaded

RECURSIVE FramesLength(_, _)
FramesLength(id, items) ==
  IF items = {} THEN 0
  ELSE LET x == CHOOSE y \in items : TRUE
       IN 8 + Len(payload_of(id, x)) + FramesLength(id, items \ {x})

\* The length the file's header records for the k-th section.
Declared(k) == LE_read_u64(Slice(disk, FieldAt(k), FieldAt(k) + 8))

\* C1: a file produced by write, loaded into a fresh server, gives back the
\* membership table and the six rumor stores, whatever the order the maps were
\* iterated in.
C1_RoundTrip ==
  (origin = "written" /\ Ran) =>
     /\ loaded.ok
     /\ HealthOf(loaded.member_list) = HealthOf(member_list)
     /\ loaded.stores = stores

C1_Witness ==
  /\ origin = "written" /\ Ran /\ loaded.ok
  /\ Cardinality(DOMAIN member_list) = 2
  /\ \E id \in DOMAIN member_list : member_list[id].health = "Suspect"
  /\ loaded.member_list # EmptyMemberList

\* C4: in a written file the length recorded for each section is the sum of
\* 8 + payload length over the section's records, a load consumes exactly that
\* length in each section, and ends at the end of the file.
C4_SectionLengths ==
  (origin = "written") =>
     /\ Len(disk) >= 1 + HEADER_VERSION_2_SIZE
     /\ \A k \in 1..Len(SectionOrder) :
          Declared(k) = FramesLength(SectionOrder[k],
                                     ItemsOf(member_list, stores, SectionOrder[k]))
     /\ Ran =>
          /\ loaded.sections = SectionOrder
          /\ \A k \in 1..Len(SectionOrder) : loaded.consumed[k] = Declared(k)
          /\ loaded.pos = Len(disk)

C4_Witness ==
  /\ origin = "written" /\ Ran
  /\ \E t \in RumorTypes : Cardinality(stores[t]) = 2
  /\ loaded.pos = Len(disk)

\* C5: a version-1 file loads, the Departure section is not read and the
\* Departure store receives nothing.
C5_Version1 ==
  (origin = "v1" /\ Ran) =>
     /\ loaded.ok
     /\ loaded.version = 1
     /\ loaded.sections = SubSeq(SectionOrder, 1, 6)
     /\ loaded.stores["departure"] = {}
     /\ loaded.pos = Len(disk)
     /\ HealthOf(loaded.member_list) = HealthOf(member_list)
     /\ \A t \in RumorTypes \ {"departure"} : loaded.stores[t] = stores[t]

C5_Witness ==
  /\ origin = "v1" /\ Ran /\ loaded.ok
  /\ member_list # EmptyMemberList
  /\ \E t \in RumorTypes \ {"departure"} : stores[t] # {}

\* C7 (as claimed): every section a load accepts was consumed to exactly its
\* declared length.
C7_ExactFraming ==
  Ran => \A k \in 1..Len(loaded.sections) :
            loaded.consumed[k] = loaded.header[loaded.sections[k]]

\* --------------------------------------------------- MemberList, RumorStore
\* The timeout sweep of the MemberList: every member in health `from` that has
\* held it for longer than `timeout` moves to health `to`.
members_expired_to(ml, from, to, timeout) ==
  [id \in DOMAIN ml |->
     IF ml[id].health = from /\ ml[id].time_in_state > timeout
     THEN [health |-> to, time_in_state |-> 0]
     ELSE ml[id]]

\* Mutant: the sweep takes every member that is not yet at `to`.
members_expired_to_confirmed_any(ml, timeout) ==
  [id \in DOMAIN ml |->
     IF ml[id].health # "Confirmed" /\ ml[id].time_in_state > timeout
     THEN [health |-> "Confirmed", time_in_state |-> 0]
     ELSE ml[id]]

members_expired_to_confirmed(ml, timeout) ==
  members_expired_to(ml, "Suspect", "Confirmed", timeout)

members_expired_to_departed(ml, timeout) ==
  members_expired_to(ml, "Confirmed", "Departed", timeout)

\* Mutant: a call removes the first expired rumor it meets and returns.
purge_expired_one(store, t) ==
  LET expired == {r \in store : r.expiration # <<>> /\ r.expiration[1] <= t}
  IN IF expired = {} THEN store
     ELSE store \ {CHOOSE r \in expired : TRUE}

\* Mutant: a rumor expires only once its timestamp is strictly in the past.
purge_expired_strict(store, t) ==
  {r \in store : r.expiration = <<>> \/ r.expiration[1] >= t}

\* RumorStore::purge_expired: the rumors whose expiration is at or before `t` go.
purge_expired(store, t) ==
  {r \in store : r.expiration = <<>> \/ r.expiration[1] > t}

\* Mutant: the section is serialized without taking the lock.
lock_of_none(id) == "none"

\* The lock a section's serialization holds: MemberList::entries (read) inside
\* with_memberships_mlr, store.list.read() inside write_rumor_store.
lock_of(id) == id

\* ------------------------------------------------------------------ Expire
\* Mutant: the stores are purged in the order the snapshot writes them.
PurgeOrder_as_written == RumorOrder

\* The order in which Expire::run purges the stores.
PurgeOrder == <<"departure", "election", "election-update",
                "service", "service-config", "service-file">>

\* The time a member can be seen to have held its health saturates above both timeouts.
AgeCap ==
  1 + (IF suspicion_timeout > departure_timeout THEN suspicion_timeout ELSE departure_timeout)

\* The healths that time out: the sweeps read the time of no other member.
TimedHealth == {"Suspect", "Confirmed"}

\* Time passes by one unit (LOOP_DELAY_MS): the clock and the time each Suspect
\* or Confirmed member has held its health advance.  The clock saturates at
\* MaxTime, which no expiration timestamp exceeds.
Advance ==
  /\ now' = IF now < MaxTime THEN now + 1 ELSE now
  /\ member_list' =
       [id \in DOMAIN member_list |->
          [member_list[id] EXCEPT
             !.time_in_state =
                IF member_list[id].health \in TimedHealth /\ @ < AgeCap THEN @ + 1 ELSE @]]

\* Time also passes while the loop is not asleep.  Only the sweeps and Utc::now()
\* read the time, so an advance anywhere else in the loop is the same as one just
\* before the next of them.
Tick ==
  /\ expire.pc \in {"confirm", "depart", "now"}
  /\ Advance
  /\ UNCHANGED <<stores, expire, writer, disk, origin, loaded, hist, dat_file, download>>

\* The clock without that reduction: time passes at any point of the loop, also
\* between the capture of `now` and the purges that use it.
TickAny ==
  /\ Advance
  /\ UNCHANGED <<stores, expire, writer, disk, origin, loaded, hist, dat_file, download>>

\* What the write call has seen of the server: every state it was in since the
\* call began.
Content == [member_list |-> HealthOf(member_list), stores |-> stores]
ContentNext == [member_list |-> HealthOf(member_list'), stores |-> stores']

Observe ==
  hist' = [hist EXCEPT
             !.seen = IF writer.pc \in {"idle", "done", "failed"} THEN @
                      ELSE @ \cup {ContentNext},
             !.removed = @ \cup UNION {{<<t, r>> : r \in stores[t] \ stores'[t]} :
                                         t \in RumorTypes},
             !.swept = @ \cup {<<id, member_list'[id].health>> :
                                 id \in {x \in DOMAIN member_list :
                                            member_list'[x].health # member_list[x].health}}]

\* Mutant: the first sweep of the loop is the Confirmed -> Departed one as well.
ExpireConfirm_departs ==
  /\ expire.pc = "confirm"
  /\ writer.lock # MembershipId
  /\ member_list' = members_expired_to_departed(member_list, suspicion_timeout)
  /\ expire' = [expire EXCEPT !.pc = "depart"]
  /\ UNCHANGED <<stores, now, writer, disk, origin, loaded, dat_file, download>>
  /\ Observe

\* self.server.member_list.members_expired_to_confirmed(suspicion_timeout)
ExpireConfirm ==
  /\ expire.pc = "confirm"
  /\ writer.lock # MembershipId
  /\ member_list' = members_expired_to_confirmed(member_list, suspicion_timeout)
  /\ expire' = [expire EXCEPT !.pc = "depart"]
  /\ UNCHANGED <<stores, now, writer, disk, origin, loaded, dat_file, download>>
  /\ Observe

\* self.server.member_list.members_expired_to_departed(departure_timeout)
ExpireDepart ==
  /\ expire.pc = "depart"
  /\ writer.lock # MembershipId
  /\ member_list' = members_expired_to_departed(member_list, departure_timeout)
  /\ expire' = [expire EXCEPT !.pc = "now"]
  /\ UNCHANGED <<stores, now, writer, disk, origin, loaded, dat_file, download>>
  /\ Observe

\* let now = Utc::now();
ExpireNow ==
  /\ expire.pc = "now"
  /\ expire' = [expire EXCEPT !.pc = "purge", !.k = 1, !.now = now]
  /\ UNCHANGED <<member_list, stores, now, writer, disk, origin, loaded, hist, dat_file, download>>

\* self.server.<store>.purge_expired(now), for the stores in PurgeOrder
ExpirePurge ==
  /\ expire.pc = "purge"
  /\ LET t == PurgeOrder[expire.k]
     IN /\ writer.lock # t
        /\ stores' = [stores EXCEPT ![t] = purge_expired(stores[t], expire.now)]
  /\ expire' = IF expire.k < Len(PurgeOrder)
               THEN [expire EXCEPT !.k = @ + 1]
               ELSE [expire EXCEPT !.pc = "sleep"]
  /\ UNCHANGED <<member_list, now, writer, disk, origin, loaded, dat_file, download>>
  /\ Observe

\* Mutant: run() returns after the sleep of its first iteration.
ExpireSleep_returns ==
  /\ expire.pc = "sleep"
  /\ expire' = [expire EXCEPT !.pc = "returned", !.k = 1]
  /\ Advance
  /\ UNCHANGED <<stores, writer, disk, origin, loaded, hist, dat_file, download>>

\* thread::sleep(LOOP_DELAY_MS), then the next iteration of the loop
ExpireSleep ==
  /\ expire.pc = "sleep"
  /\ expire' = [expire EXCEPT !.pc = "confirm", !.k = 1]
  /\ Advance
  /\ UNCHANGED <<stores, writer, disk, origin, loaded, hist, dat_file, download>>

ExpireStep == ExpireConfirm \/ ExpireDepart \/ ExpireNow \/ ExpirePurge \/ ExpireSleep

\* --------------------------------------------------- DatFile::write, stepwise
\* The error a failed step leaves the closure with: the writes carry
\* map_err(DatFileIO); seek and flush, and with_writer's own publication, hand
\* the io::Error on with `?`, which From turns into UnknownIOError.
raw_error(pc) ==
  IF pc \in {"seek", "flush", "publish"} THEN "UnknownIOError" ELSE "DatFileIO"

\* Mutant: the result of with_writer is returned as it is.
map_err_none(e) == e

\* .map_err(|err| match err { Error::UnknownIOError(e) => Error::DatFileIO(path, e), e => e })
map_err(e) == IF e = "UnknownIOError" THEN "DatFileIO" ELSE e

\* `Ok(0)`, the value of the closure and so of the write call.
write_returns(w) == 0

\* Mutant: a failed step does not end the closure, which goes on to return Ok.
on_error_swallowed(w) ==
  [w EXCEPT !.pc = "publish", !.at = w.pc, !.error = TRUE, !.lock = "none"]

\* A failed step: `?` returns the error from the closure, the guard of the
\* section being written is dropped, with_writer does not publish and the
\* temporary file goes away with the AtomicWriter.
on_error(w) ==
  [w EXCEPT !.pc = "failed", !.at = w.pc, !.error = TRUE, !.lock = "none",
            !.tmp = <<>>, !.buf = <<>>, !.err = map_err(raw_error(w.pc))]

WriterUnchanged == UNCHANGED <<member_list, stores, now, expire, disk, origin, loaded, dat_file, download>>

\* AtomicWriter::new(&self.path): the temporary file exists, empty.
WriteNew ==
  /\ writer.pc = "idle"
  /\ writer' = [writer EXCEPT !.pc = "version"]
  /\ hist' = [hist EXCEPT !.prev = disk, !.seen = {Content}]
  /\ WriterUnchanged

\* writer.write(&[HEADER_VERSION])
WriteVersion ==
  /\ writer.pc = "version"
  /\ writer' = [write_version(writer) EXCEPT !.pc = "reserve"]
  /\ UNCHANGED hist /\ WriterUnchanged

\* writer.write(&header_reserve)
WriteReserve ==
  /\ writer.pc = "reserve"
  /\ writer' = [write_header_reserve(writer) EXCEPT !.pc = "lock", !.sec = 1]
  /\ UNCHANGED hist /\ WriterUnchanged

\* with_memberships_mlr / store.list.read(): the section's read lock is taken.
WriteLock ==
  /\ writer.pc = "lock"
  /\ writer' = [section_begin(writer) EXCEPT
                  !.pc = "frames", !.lock = lock_of(SectionOrder[writer.sec]),
                  !.yielded = {}]
  /\ UNCHANGED hist /\ WriterUnchanged

\* One turn of the section's loop: the iterator yields a record not yet
\* written, write_member / write_rumor writes its frame.
WriteFrame ==
  /\ writer.pc = "frames"
  /\ LET id == SectionOrder[writer.sec]
     IN \E x \in ItemsOf(member_list, stores, id) \ writer.yielded :
          writer' = [write_rumor(writer, id, x) EXCEPT !.yielded = @ \cup {x}]
  /\ UNCHANGED hist /\ WriterUnchanged

\* Mutant: the section's guard is not dropped when its loop ends.
WriteUnlock_keeps_guard ==
  /\ writer.pc = "frames"
  /\ LET id == SectionOrder[writer.sec]
     IN /\ ItemsOf(member_list, stores, id) \subseteq writer.yielded
        /\ writer' = [section_end(writer, id) EXCEPT
                        !.pc = IF writer.sec < Len(SectionOrder) THEN "lock" ELSE "seek",
                        !.sec = IF writer.sec < Len(SectionOrder) THEN @ + 1 ELSE @]
  /\ UNCHANGED hist /\ WriterUnchanged

\* The iterator is exhausted: the lock is released and the section's total
\* enters the header.
WriteUnlock ==
  /\ writer.pc = "frames"
  /\ LET id == SectionOrder[writer.sec]
     IN /\ ItemsOf(member_list, stores, id) \subseteq writer.yielded
        /\ writer' = [section_end(writer, id) EXCEPT
                        !.lock = "none",
                        !.pc = IF writer.sec < Len(SectionOrder) THEN "lock" ELSE "seek",
                        !.sec = IF writer.sec < Len(SectionOrder) THEN @ + 1 ELSE @]
  /\ UNCHANGED hist /\ WriterUnchanged

\* writer.seek(SeekFrom::Start(1))
WriteSeek ==
  /\ writer.pc = "seek"
  /\ writer' = [write_seek(writer) EXCEPT !.pc = "header"]
  /\ UNCHANGED hist /\ WriterUnchanged

\* self.write_header(&mut writer, &header)
WriteHeader ==
  /\ writer.pc = "header"
  /\ writer' = [write_header(writer) EXCEPT !.pc = "flush"]
  /\ UNCHANGED hist /\ WriterUnchanged

\* writer.flush()
WriteFlush ==
  /\ writer.pc = "flush"
  /\ writer' = [write_flush(writer) EXCEPT !.pc = "publish"]
  /\ UNCHANGED hist /\ WriterUnchanged

\* The closure returned Ok: AtomicWriter puts the temporary file at the path.
WritePublish ==
  /\ writer.pc = "publish"
  /\ disk' = writer.tmp
  /\ origin' = "written"
  /\ writer' = [writer EXCEPT !.pc = "done", !.ret = <<write_returns(writer)>>]
  /\ UNCHANGED <<member_list, stores, now, expire, loaded, hist, dat_file, download>>

\* AtomicWriter::new(&self.path) fails: map_err, `?`.
WriteNewFail ==
  /\ writer.pc = "idle"
  /\ writer' = [writer EXCEPT !.pc = "failed", !.at = "idle", !.error = TRUE,
                              !.err = "DatFileIO"]
  /\ hist' = [hist EXCEPT !.prev = disk, !.seen = {Content}]
  /\ WriterUnchanged

\* Any step that touches the file can fail.
WriteFail ==
  /\ writer.pc \in {"version", "reserve", "frames", "seek", "header", "flush", "publish"}
  /\ ~writer.error
  /\ writer' = on_error(writer)
  /\ UNCHANGED hist /\ WriterUnchanged

WriteStep ==
  \/ WriteNew \/ WriteNewFail \/ WriteVersion \/ WriteReserve \/ WriteLock \/ WriteFrame
  \/ WriteUnlock \/ WriteSeek \/ WriteHeader \/ WriteFlush \/ WritePublish
  \/ WriteFail

\* ------------------------------------------------ the running server (Spec)
\* The server holds some state and the snapshot of it that was written at
\* start-up; the Expire thread runs, time passes, and one DatFile::write is made.
\* The states drawn hold at most one member and at most one rumor.
InitialSnapshot(ml, rs) ==
  write_closure(CHOOSE order \in Orders(ml, rs) : TRUE).tmp

SoloMemberLists ==
  {EmptyMemberList}
    \cup {[id \in {1} |-> [health |-> h, time_in_state |-> 0]] : h \in Health}

SoloStores ==
  {EmptyStores}
    \cup {[EmptyStores EXCEPT ![t] = {r}] :
            t \in RumorTypes, r \in {x \in Rumors : x.member_id = 1}}

Init ==
  /\ member_list \in SoloMemberLists
  /\ stores \in SoloStores
  /\ disk = InitialSnapshot(member_list, stores)
  /\ now = 0
  /\ expire = ExpireIdle
  /\ writer = WriterIdle
  /\ origin = "written"
  /\ loaded = NotLoaded
  /\ hist = NoHist
  /\ dat_file = NoDatFile
  /\ download = NoDownload

\* The model follows the server until the write call has returned.
Returned == writer.pc \in {"done", "failed"}

Next == WriteStep \/ (~Returned /\ (Tick \/ ExpireStep))

Spec == Init /\ [][Next]_vars

\* The same server with its threads scheduled: the thread in DatFile::write and
\* the Expire thread each take their next step when they can.  The states drawn
\* are those in which the two threads meet: the member, if any, is in a health
\* that the sweeps change, and the rumor, if any, is in the store that is
\* purged first and written last or in the one that is written first.
RaceInit ==
  /\ Init
  /\ \A id \in DOMAIN member_list : member_list[id].health \in TimedHealth
  /\ \A t \in RumorTypes \ {"departure", "service"} : stores[t] = {}

SpecRace == RaceInit /\ [][Next]_vars /\ WF_vars(WriteStep) /\ WF_vars(ExpireStep)

\* ------------------------------------------- the Expire loop (SpecExpire, SpecLive)
\* The Expire thread and the clock alone, over every server state of at most
\* MaxRecords records, each member having held its health for any time.
Aged(ml) ==
  {[id \in DOMAIN ml |-> [health |-> ml[id].health, time_in_state |-> a[id]]] :
     a \in [DOMAIN ml -> 0..AgeCap]}

ExpireInit ==
  /\ \E s \in ServerStates(MaxRecords) :
        /\ member_list \in Aged(s.member_list)
        /\ stores = s.stores
  /\ now = 0
  /\ expire = ExpireIdle
  /\ writer = WriterIdle
  /\ disk = <<>>
  /\ origin = "none"
  /\ loaded = NotLoaded
  /\ hist = NoHist
  /\ dat_file = NoDatFile
  /\ download = NoDownload

ExpireNext == TickAny \/ ExpireStep

SpecExpire == ExpireInit /\ [][ExpireNext]_vars

\* The same loop over every membership table, with the thread scheduled: a
\* thread that can take its next step takes it.
AllMemberLists ==
  UNION {[ids -> [health : Health, time_in_state : 0..AgeCap]] : ids \in SUBSET MemberIds}

LiveInit ==
  /\ member_list \in AllMemberLists
  /\ stores = EmptyStores
  /\ now = 0
  /\ expire = ExpireIdle
  /\ writer = WriterIdle
  /\ disk = <<>>
  /\ origin = "none"
  /\ loaded = NotLoaded
  /\ hist = NoHist
  /\ dat_file = NoDatFile
  /\ download = NoDownload

SpecLive == LiveInit /\ [][ExpireNext]_vars /\ WF_vars(ExpireStep)

\* ------------------------------------- DatFile::read_or_create (SpecOpen)
\* The server starts: at the path there is no file, an empty file, or the
\* snapshot an earlier run wrote; read_or_create is called once.
OpenInit ==
  /\ member_list \in SoloMemberLists
  /\ stores \in SoloStores
  /\ \/ origin = "none" /\ disk = <<>>
     \/ origin = "created" /\ disk = <<>>
     \/ /\ origin = "written"
        /\ \E ml \in SoloMemberLists, rs \in SoloStores : disk = InitialSnapshot(ml, rs)
  /\ now = 0
  /\ expire = ExpireIdle
  /\ writer = WriterIdle
  /\ loaded = NotLoaded
  /\ hist = NoHist
  /\ dat_file = NoDatFile
  /\ download = NoDownload

\* OpenOptions::new().create(true).read(true).write(true).open(&data_path):
\* a path that names no file gets an empty one; the reader is over the file
\* that was opened.
RocOpen ==
  /\ dat_file.pc = "idle"
  /\ origin' = IF origin = "none" THEN "created" ELSE origin
  /\ dat_file' = [dat_file EXCEPT !.pc = "metadata", !.existed = (origin # "none"),
                                  !.before = disk, !.reader = disk]
  /\ UNCHANGED <<member_list, stores, now, expire, writer, disk, loaded, hist, download>>

\* Mutant: the file is never taken to be empty.
size_is_zero_never(size) == FALSE

\* `if size == 0`
size_is_zero(size) == size = 0

\* file.metadata()?.len(), the DatFile is built, and `if size == 0`.
RocMetadata ==
  /\ dat_file.pc = "metadata"
  /\ LET size == Len(dat_file.reader)
     IN dat_file' = [dat_file EXCEPT
                       !.size = size,
                       !.pc = IF size_is_zero(size) THEN "write" ELSE "done",
                       !.result = IF size_is_zero(size) THEN "none" ELSE "Ok"]
  /\ UNCHANGED <<member_list, stores, now, expire, writer, disk, origin, loaded, hist, download>>

\* open or metadata fails: map_err, `?`.
RocFail ==
  /\ dat_file.pc \in {"idle", "metadata"}
  /\ dat_file' = [dat_file EXCEPT !.pc = "failed", !.result = "DatFileIO",
                                  !.existed = IF dat_file.pc = "idle" THEN origin # "none" ELSE @,
                                  !.before = IF dat_file.pc = "idle" THEN disk ELSE @]
  /\ UNCHANGED <<member_list, stores, now, expire, writer, disk, origin, loaded, hist, download>>

\* dat_file.write(server)?: the steps of the write call.
RocWrite ==
  /\ dat_file.pc = "write"
  /\ WriteStep

\* The write returned: `?` hands its error on, Ok(dat_file) otherwise.
RocReturn ==
  /\ dat_file.pc = "write"
  /\ Returned
  /\ dat_file' = IF writer.pc = "done"
                 THEN [dat_file EXCEPT !.pc = "done", !.result = "Ok"]
                 ELSE [dat_file EXCEPT !.pc = "failed", !.result = writer.err]
  /\ UNCHANGED <<member_list, stores, now, expire, writer, disk, origin, loaded, hist, download>>

\* dat_file.read_into_mlr(&server) on the DatFile that read_or_create returned:
\* its reader is over the file that was opened, and the records go into the server.
RocLoad ==
  /\ dat_file.pc = "done"
  /\ loaded = NotLoaded
  /\ loaded' = read_into_mlr(dat_file.reader, member_list, stores)
  /\ member_list' = loaded'.member_list
  /\ stores' = loaded'.stores
  /\ UNCHANGED <<now, expire, writer, disk, origin, dat_file, hist, download>>

OpenNext == RocOpen \/ RocMetadata \/ RocFail \/ RocWrite \/ RocReturn \/ RocLoad

SpecOpen == OpenInit /\ [][OpenNext]_vars

\* ------------------------------------------- purge_expired alone (SpecPurge)
\* store.purge_expired(n) called on one store of the server, by any caller and
\* with any timestamp, again and again.
PurgeCall ==
  /\ \E t \in RumorTypes, n \in Times :
        /\ stores' = [stores EXCEPT ![t] = purge_expired(stores[t], n)]
        /\ hist' = [hist EXCEPT
                      !.removed = @ \cup {<<t, r>> : r \in stores[t] \ stores'[t]},
                      !.purged = IF @ # <<>> /\ @[1] = t /\ @[2] = n
                                 THEN <<t, n, 2>> ELSE <<t, n, 1>>]
  /\ UNCHANGED <<member_list, now, expire, writer, disk, origin, loaded, dat_file, download>>

SpecPurge == ExpireInit /\ [][PurgeCall]_vars

\* ---------------------------------- download::start (SpecDownload)
\* command/package/download.rs.  Package identifiers are fully qualified
\* (origin/name/version/release) or not; the one target is that of the call.
RETRIES == 5

FullIdents == {"core/app/1.0/1", "core/lib/1.0/1"}
PartialIdents == {"core/app"}
PackageIdents == FullIdents \cup PartialIdents

\* PackageIdent::fully_qualified
fully_qualified(ident) == ident \in FullIdents

\* The release a fully qualified identifier is, and the releases a partial one names.
satisfies(p, ident) ==
  IF fully_qualified(ident) THEN p = ident ELSE p = "core/app/1.0/1"

\* PackageArchive::tdeps: the TDEPS an artifact carries, transitive already.
tdeps(p) == IF p = "core/app/1.0/1" THEN {"core/lib/1.0/1"} ELSE {}

\* What is wrong with an artifact file, if anything: the ident or the target
\* its metadata carries, or its signature.
Flaws == {"good", "ident", "target", "signature"}

\* The Vec<PackageIdent> given to start: one or two identifiers.
IdentLists ==
  {<<i>> : i \in PackageIdents}
    \cup {x \in {<<i, j>> : i \in PackageIdents, j \in PackageIdents} : x[1] # x[2]}

\* The artifact cache: for each release, no file or a file.
Caches == [FullIdents -> {"none"} \cup Flaws]

\* verify_artifact on the file cached for `p`: the error it returns, or "Ok".
\* PackageArchive::ident fails on a path that names no file.
verify_artifact(file) ==
  CASE file = "none"      -> "ArchiveError"
    [] file = "ident"     -> "ArtifactIdentMismatch"
    [] file = "target"    -> "WrongActivePackageTarget"
    [] file = "signature" -> "CryptoError"
    [] file = "good"      -> "Ok"

\* retry(delay::Fixed::from(RETRY_WAIT).take(RETRIES), fetch_artifact): the
\* operation is run; each time it fails the next delay of the iterator is slept
\* and the operation is run again; it gives up once the iterator has no delay left.
retry_has_delay(waits) == waits < RETRIES

DownloadUnchanged ==
  UNCHANGED <<member_list, stores, now, expire, writer, disk, origin, loaded, dat_file, hist>>

\* start is called with `idents`; Builder's channel holds a release for the
\* partial identifier or none; the cache holds any files.
DownloadInit ==
  /\ member_list = EmptyMemberList
  /\ stores = EmptyStores
  /\ now = 0
  /\ expire = ExpireIdle
  /\ writer = WriterIdle
  /\ disk = <<>>
  /\ origin = "none"
  /\ loaded = NotLoaded
  /\ hist = NoHist
  /\ dat_file = NoDatFile
  /\ \E idents \in IdentLists, latest \in {<<>>, <<"core/app/1.0/1">>}, cache \in Caches :
        download = [pc |-> "expand", idents |-> idents, rest |-> idents,
                    latest |-> latest, cache |-> cache,
                    expanded |-> {}, pending |-> {}, missing |-> {},
                    cur |-> "none", caller |-> "none",
                    tries |-> 0, waits |-> 0, verifies |-> 0, gca |-> "none",
                    verified |-> {}, result |-> "none"]

\* expand_sources, one turn of `for ident in &self.idents`: a fully qualified
\* identifier is its own artifact, another is looked up in the channel; an
\* identifier that is not resolved is reported Missing and passed over.
\* expand_fully_qualified_dep returns at once for a package already expanded.
ExpandIdent ==
  /\ download.pc = "expand"
  /\ download.rest # <<>>
  /\ LET ident == Head(download.rest)
     IN \E found \in IF fully_qualified(ident) THEN {<<ident>>}
                     ELSE {<<>>, download.latest} :
          download' =
            IF found = <<>>
            THEN [download EXCEPT !.rest = Tail(@), !.missing = @ \cup {ident}]
            ELSE IF found[1] \in download.expanded
            THEN [download EXCEPT !.rest = Tail(@)]
            ELSE [download EXCEPT !.pc = "cached", !.cur = found[1], !.caller = "expand"]
  /\ DownloadUnchanged

\* expand_sources returns Ok(expanded_artifacts); start begins its loop over it.
ExpandDone ==
  /\ download.pc = "expand"
  /\ download.rest = <<>>
  /\ download' = [download EXCEPT !.pc = "loop", !.pending = download.expanded]
  /\ DownloadUnchanged

\* start, one turn of `for package in expanded_idents.iter()`, or Ok(()) after the last.
StartLoop ==
  /\ download.pc = "loop"
  /\ \/ /\ download.pending = {}
        /\ download' = [download EXCEPT !.pc = "done", !.result = "Ok"]
     \/ \E p \in download.pending :
          download' = [download EXCEPT !.pc = "cached", !.cur = p, !.caller = "loop",
                                       !.pending = @ \ {p}]
  /\ DownloadUnchanged

\* get_cached_archive: `if self.is_artifact_cached(package)`.
GcaCached ==
  /\ download.pc = "cached"
  /\ download' = [download EXCEPT
                    !.pc = IF download.cache[download.cur] # "none" THEN "verify" ELSE "fetch",
                    !.tries = 0, !.waits = 0, !.verifies = 0, !.gca = "none"]
  /\ DownloadUnchanged

\* fetch_artifact returns Ok: the depot's artifact, whatever it is, is in the
\* cache; or the depot answered NOT_IMPLEMENTED and nothing was stored.
GcaFetchOk ==
  /\ download.pc = "fetch"
  /\ \E file \in {"none"} \cup Flaws :
        download' = [download EXCEPT !.pc = "verify", !.tries = @ + 1,
                                     !.cache[download.cur] = file]
  /\ DownloadUnchanged

\* fetch_artifact returns Err: retry sleeps the next delay, or gives up and
\* get_cached_archive returns DownloadFailed.
GcaFetchErr ==
  /\ download.pc = "fetch"
  /\ download' = IF retry_has_delay(download.waits)
                 THEN [download EXCEPT !.pc = "wait", !.tries = @ + 1]
                 ELSE [download EXCEPT !.pc = "returned", !.tries = @ + 1,
                                       !.gca = "DownloadFailed"]
  /\ DownloadUnchanged

\* sleep(RETRY_WAIT), then the operation again.
GcaWait ==
  /\ download.pc = "wait"
  /\ download' = [download EXCEPT !.pc = "fetch", !.waits = @ + 1]
  /\ DownloadUnchanged

\* PackageArchive::new on the cached path and self.verify_artifact(..)?, once.
GcaVerify ==
  /\ download.pc = "verify"
  /\ LET r == verify_artifact(download.cache[download.cur])
     IN download' = [download EXCEPT
                       !.pc = "returned", !.verifies = @ + 1, !.gca = r,
                       !.verified = IF r = "Ok" THEN @ \cup {download.cur} ELSE @]
  /\ DownloadUnchanged

\* get_cached_archive has returned.  In expand_fully_qualified_dep the package
\* and its TDEPS enter the set, and an error leaves expand_sources, whose
\* result start unwraps; in start's loop `?` returns the error.
GcaReturn ==
  /\ download.pc = "returned"
  /\ download' =
       IF download.gca = "Ok"
       THEN IF download.caller = "expand"
            THEN [download EXCEPT !.pc = "expand", !.rest = Tail(@),
                     !.expanded = @ \cup {download.cur} \cup tdeps(download.cur)]
            ELSE [download EXCEPT !.pc = "loop"]
       ELSE [download EXCEPT !.pc = "done",
                !.result = IF download.caller = "expand" THEN "panic" ELSE download.gca]
  /\ DownloadUnchanged

DownloadNext ==
  \/ ExpandIdent \/ ExpandDone \/ StartLoop \/ GcaCached \/ GcaFetchOk \/ GcaFetchErr
  \/ GcaWait \/ GcaVerify \/ GcaReturn

SpecDownload == DownloadInit /\ [][DownloadNext]_vars

\* ------------------------------------------------------- claims on Spec
\* What a fresh server holds after loading the file `d`.
FileContent(d) ==
  LET r == read_into_mlr(d, EmptyMemberList, EmptyStores)
  IN [member_list |-> HealthOf(r.member_list), stores |-> r.stores]

\* The file `d` loads, every section to its end and the last to the end of file.
LoadsWhole(d) ==
  LET r == read_into_mlr(d, EmptyMemberList, EmptyStores)
  IN r.ok /\ r.sections = SectionOrder /\ r.pos = Len(d)

InProgress == writer.pc \notin {"idle", "done", "failed"}

\* C2: while a write has not published, and after a write in which a step
\* failed, the file at the path is the previous snapshot, byte for byte, and loads.
C2_AtomicUnderFailure ==
  /\ (InProgress \/ writer.error) => disk = hist.prev
  /\ writer.error => LoadsWhole(disk)

C2_Witness ==
  /\ writer.pc = "failed" /\ writer.at = "header"
  /\ disk = hist.prev
  /\ FileContent(disk) # Content

\* C3: the file at the path is the previous snapshot until the write is done,
\* and from then on the complete new one: every section written, the header
\* written over the placeholder at offset 1, nothing left in the writer's buffer.
C3_AllOrNothing ==
  (writer.pc # "idle") =>
     \/ disk = hist.prev
     \/ /\ writer.pc = "done"
        /\ disk = writer.tmp
        /\ writer.buf = <<>>
        /\ DOMAIN writer.header = SectionIds
        /\ disk[1] = HEADER_VERSION
        /\ Slice(disk, 1, 1 + HEADER_VERSION_2_SIZE) = Header_write_to_bytes(writer.header)
        /\ LoadsWhole(disk)

C3_Witness ==
  /\ writer.pc = "done"
  /\ disk # hist.prev
  /\ LoadsWhole(disk)

\* C6 (as claimed): the file a write produced is the serialization of one state
\* the server was in during the call.
C6_OneSnapshot ==
  (writer.pc = "done") => \E c \in hist.seen : FileContent(disk) = c

\* What the section locks do give (C6): each section of the file a write produced
\* is the serialization of its table or store as it was at some moment of the
\* call; the moments of different sections can differ.
C6_SnapshotPerSection ==
  (writer.pc = "done") =>
     /\ \E c \in hist.seen : FileContent(disk).member_list = c.member_list
     /\ \A t \in RumorTypes :
          \E c \in hist.seen : FileContent(disk).stores[t] = c.stores[t]

C6_Witness ==
  /\ writer.pc = "done"
  /\ \A c \in hist.seen : FileContent(disk) # c

\* ------------------------------------------- claims on SpecExpire, SpecLive
\* C8: a step changes a member's health only from Suspect to Confirmed, in the
\* first sweep, or from Confirmed to Departed, in the second; no member leaves
\* the table, Alive and Departed members are never changed.
C8_HealthStep ==
  \A id \in DOMAIN member_list :
     /\ id \in DOMAIN member_list'
     /\ \/ member_list'[id].health = member_list[id].health
        \/ /\ expire.pc = "confirm"
           /\ member_list[id].health = "Suspect"
           /\ member_list'[id].health = "Confirmed"
        \/ /\ expire.pc = "depart"
           /\ member_list[id].health = "Confirmed"
           /\ member_list'[id].health = "Departed"

C8_HealthMonotone == [][C8_HealthStep]_vars

C8_Witness ==
  /\ \E id \in DOMAIN member_list :
        /\ <<id, "Confirmed">> \in hist.swept
        /\ member_list[id].health = "Confirmed"
  /\ \E id \in DOMAIN member_list :
        /\ member_list[id].health = "Alive"
        /\ member_list[id].time_in_state > suspicion_timeout

\* C9: the first sweep makes every Suspect member that has held its health
\* for longer than suspicion_timeout Confirmed, the second makes every Confirmed
\* member that has held it for longer than departure_timeout Departed, and with
\* the loop running every Suspect member is eventually Departed.
C9_SweepStep ==
  /\ (expire.pc = "confirm" /\ expire'.pc = "depart") =>
        \A id \in DOMAIN member_list :
           (member_list[id].health = "Suspect"
              /\ member_list[id].time_in_state > suspicion_timeout)
             => member_list'[id].health = "Confirmed"
  /\ (expire.pc = "depart" /\ expire'.pc = "now") =>
        \A id \in DOMAIN member_list :
           (member_list[id].health = "Confirmed"
              /\ member_list[id].time_in_state > departure_timeout)
             => member_list'[id].health = "Departed"

C9_Liveness ==
  /\ [][C9_SweepStep]_vars
  /\ \A id \in MemberIds :
        (id \in DOMAIN member_list /\ member_list[id].health = "Suspect")
           ~> (id \in DOMAIN member_list /\ member_list[id].health = "Departed")

C9_Witness ==
  \E id \in DOMAIN member_list :
     /\ <<id, "Confirmed">> \in hist.swept
     /\ <<id, "Departed">> \in hist.swept
     /\ member_list[id].health = "Departed"

\* C10: a purge of a store removes the rumors whose expiration is at or before
\* the `now` of the call, keeps every other rumor as it is, and keeps every
\* rumor that has no expiration.
C10_PurgeStep ==
  (expire.pc = "purge" /\ expire' # expire) =>
     LET t == PurgeOrder[expire.k]
     IN /\ stores'[t] \subseteq stores[t]
        /\ \A r \in stores[t] :
             (r \notin stores'[t]) <=>
                (r.expiration # <<>> /\ r.expiration[1] <= expire.now)
        /\ \A u \in RumorTypes \ {t} : stores'[u] = stores[u]

C10_PurgeExact == [][C10_PurgeStep]_vars

C10_Witness ==
  \E t \in RumorTypes :
     /\ \E x \in hist.removed : x[1] = t
     /\ \E r \in stores[t] : r.expiration # <<>>

\* C11: a purge_expired call that repeats the call before it, on the same store
\* with the same timestamp, changes nothing; and a call whose timestamp is
\* earlier than the expiration of every rumor of the store changes nothing.
C11_PurgeStep ==
  (hist'.purged # hist.purged \/ stores' # stores) =>
     LET t == hist'.purged[1]
         n == hist'.purged[2]
     IN /\ hist'.purged[3] = 2 => stores' = stores
        /\ (\A r \in stores[t] : r.expiration # <<>> => n < r.expiration[1])
              => stores' = stores

C11_PurgeIdempotent == [][C11_PurgeStep]_vars

C11_Witness ==
  /\ hist.purged # <<>>
  /\ hist.purged[3] = 2
  /\ \E x \in hist.removed :
        x[1] = hist.purged[1] /\ x[2].expiration[1] = hist.purged[2]
  /\ \E r \in stores[hist.purged[1]] : r.expiration # <<>>

\* C12: a tick of the loop is, in this order, the Suspect -> Confirmed sweep, the
\* Confirmed -> Departed sweep, the capture of the clock, and one purge of each of
\* the Departure, Election, ElectionUpdate, Service, ServiceConfig and ServiceFile
\* stores in that order, each with the captured timestamp, whatever the clock
\* shows by then; then the sleep.
C12_Stores ==
  <<"departure", "election", "election-update", "service", "service-config", "service-file">>

C12_TickStep ==
  IF expire' = expire
  THEN stores' = stores /\ HealthOf(member_list') = HealthOf(member_list)
  ELSE
    CASE expire.pc = "confirm" ->
           /\ expire'.pc = "depart"
           /\ stores' = stores
           /\ \A id \in DOMAIN member_list :
                 member_list'[id].health # member_list[id].health
                    => member_list'[id].health = "Confirmed"
      [] expire.pc = "depart" ->
           /\ expire'.pc = "now"
           /\ stores' = stores
           /\ \A id \in DOMAIN member_list :
                 member_list'[id].health # member_list[id].health
                    => member_list'[id].health = "Departed"
      [] expire.pc = "now" ->
           /\ expire'.pc = "purge" /\ expire'.k = 1
           /\ expire'.now = now
           /\ stores' = stores /\ member_list' = member_list
      [] expire.pc = "purge" ->
           /\ expire'.now = expire.now
           /\ member_list' = member_list
           /\ expire.k \in 1..6
           /\ stores' = [stores EXCEPT ![C12_Stores[expire.k]] =
                           {r \in @ : r.expiration = <<>> \/ r.expiration[1] > expire.now}]
           /\ IF expire.k < 6
              THEN expire'.pc = "purge" /\ expire'.k = expire.k + 1
              ELSE expire'.pc = "sleep"
      [] expire.pc = "sleep" ->
           /\ expire'.pc = "confirm"
           /\ stores' = stores /\ HealthOf(member_list') = HealthOf(member_list)

C12_TickOrder == [][C12_TickStep]_vars

C12_Witness ==
  /\ expire.pc = "sleep"
  /\ now > expire.now
  /\ \E x \in hist.removed : x[1] = "service-file" /\ x[2].expiration[1] = expire.now
  /\ \E r \in stores["departure"] : r.expiration # <<>> /\ r.expiration[1] = now

\* C13 (as claimed): no byte goes to the snapshot writer while the lock of a
\* table or store is held: a step that writes is taken with no lock held.
C13_WriteStep ==
  (Len(writer'.buf) > Len(writer.buf) \/ Len(writer'.tmp) > Len(writer.tmp)) =>
     (writer.lock = "none" /\ writer'.lock = "none")

C13_NoLockAcrossIO == [][C13_WriteStep]_vars

C15_ReturnsBytesWritten ==
  (writer.pc = "done") =>
     writer.ret = <<1 + HEADER_VERSION_2_SIZE
                      + SumSeq([k \in 1..Len(SectionOrder) |-> writer.header[SectionOrder[k]]])>>

\* C16 (as claimed): a file whose version byte is neither 1 nor 2 loads as the
\* same bytes under version byte 2 load: the same sections, the Departure
\* section among them, into the same table and stores.
C16_OtherVersionsAsLatest ==
  (origin = "versioned" /\ Ran) =>
     LET as2 == read_into_mlr(WriteAt(disk, 0, <<HEADER_VERSION>>),
                              EmptyMemberList, EmptyStores)
     IN /\ loaded.ok = as2.ok
        /\ loaded.header = as2.header
        /\ loaded.header_size = as2.header_size
        /\ loaded.sections = as2.sections
        /\ loaded.member_list = as2.member_list
        /\ loaded.stores = as2.stores

\* C17: the header a load decodes is, for version 1, of size 48 with the six
\* lengths of Membership .. ElectionUpdate read from the first 48 bytes of the
\* body in that order and Departure 0; for any other version, of the size read
\* from the first 8 bytes of the body, with the seven lengths read from the next
\* 56 in the order Membership .. Departure.
C17_FieldOf(k) == LE_read_u64(Slice(disk, 1 + 8 * k, 9 + 8 * k))

C17_HeaderDecode ==
  (Ran /\ loaded.failed # "header") =>
     IF disk[1] = 1
     THEN /\ loaded.header_size = 48
          /\ \A k \in 1..6 : loaded.header[SectionOrder[k]] = C17_FieldOf(k - 1)
          /\ loaded.header["departure"] = 0
     ELSE /\ loaded.header_size = C17_FieldOf(0)
          /\ \A k \in 1..7 : loaded.header[SectionOrder[k]] = C17_FieldOf(k)

C17_Witness ==
  /\ origin = "future" /\ Ran
  /\ loaded.header_size > HEADER_VERSION_2_SIZE
  /\ loaded.header["departure"] > 0
  /\ loaded.header["membership"] > 0
  /\ loaded.header["membership"] # loaded.header["departure"]

\* C18: read_header leaves the reader at 1 + the size of the header body, 48
\* for version 1 and the size the header carries otherwise; a file of a later
\* version, whose header carries a size above 64 and has fields after the seven
\* known ones, has its seven lengths read and its sections decoded from there.
C18_FirstSection ==
  (Ran /\ loaded.failed # "header") =>
     /\ loaded.start = 1 + (IF disk[1] = 1 THEN 48 ELSE C17_FieldOf(0))
     /\ (origin = "future") =>
           /\ loaded.start > 1 + HEADER_VERSION_2_SIZE
           /\ loaded.ok
           /\ loaded.sections = SectionOrder
           /\ \A k \in 1..7 :
                 loaded.header[SectionOrder[k]] =
                    FramesLength(SectionOrder[k], ItemsOf(member_list, stores, SectionOrder[k]))
           /\ HealthOf(loaded.member_list) = HealthOf(member_list)
           /\ loaded.stores = stores
           /\ loaded.pos = Len(disk)

C18_Witness ==
  /\ origin = "future" /\ Ran /\ loaded.ok
  /\ loaded.start = 1 + HEADER_VERSION_2_SIZE + 8
  /\ disk[loaded.start - 7] # 0
  /\ member_list # EmptyMemberList
  /\ stores["departure"] # {}

\* C19: a written file carries version byte 2 and a 64-byte header whose first
\* field is 64, followed by the sections of Membership, Service, ServiceConfig,
\* ServiceFile, Election, ElectionUpdate and Departure in that order, each of the
\* length its header field records; a load decodes the sections in that order,
\* each from where the one before it ended.
C19_Canon ==
  <<"membership", "service", "service-config", "service-file",
    "election", "election-update", "departure">>

C19_SectionAt(k) ==
  65 + SumSeq([j \in 1..(k - 1) |-> C17_FieldOf(j)])

C19_CanonicalOrder ==
  /\ (origin = "written") =>
        /\ disk[1] = 2
        /\ C17_FieldOf(0) = 64
        /\ Len(disk) = C19_SectionAt(8)
        /\ \A k \in 1..7 :
              LET r == read_and_process(disk, C19_SectionAt(k), C17_FieldOf(k), C19_Canon[k])
              IN /\ r.ok
                 /\ r.pos = C19_SectionAt(k + 1)
                 /\ {r.items[i] : i \in 1..Len(r.items)}
                       = (IF k = 1 THEN MembershipsOf(member_list) ELSE stores[C19_Canon[k]])
  /\ Ran =>
        /\ loaded.sections = SubSeq(C19_Canon, 1, Len(loaded.sections))
        /\ loaded.ok => loaded.pos = loaded.start + SumSeq(loaded.consumed)

C19_Witness ==
  /\ origin = "written" /\ Ran /\ loaded.ok
  /\ member_list # EmptyMemberList
  /\ stores["departure"] # {}
  /\ loaded.stores["departure"] # {}

\* C20: a failure of open or metadata in read_or_create, of any step of write,
\* or of a read in read_into_mlr ends the call with Error::DatFileIO; the
\* failed write publishes nothing and takes no further step, and read_or_create
\* hands the error of its write on.
C20_Returned ==
  /\ writer.error => (writer.pc = "failed" /\ writer.err = "DatFileIO" /\ disk = hist.prev)
  /\ (writer.pc = "failed") => writer.error
  /\ (dat_file.pc = "failed") => dat_file.result = "DatFileIO"
  /\ (dat_file.pc = "done") => (dat_file.result = "Ok" /\ ~writer.error)
  /\ (writer.error /\ dat_file.pc # "write") => dat_file.pc = "failed"
  /\ (Ran /\ ~loaded.ok /\ loaded.err # "Decode") => loaded.err = "DatFileIO"

C20_NoRetry ==
  (writer.pc = "failed" \/ dat_file.pc = "failed") =>
     (writer' = writer /\ disk' = disk /\ (dat_file.pc = "failed" => dat_file' = dat_file))

C20_ErrorsReturned == []C20_Returned /\ [][C20_NoRetry]_vars

C20_Witness ==
  /\ dat_file.pc = "failed"
  /\ writer.pc = "failed"
  /\ writer.at = "flush"
  /\ writer.err = "DatFileIO"

\* ----------------------------------------------- claims on SpecDownload
\* C21 (as claimed): when start returns Ok, for every identifier it was given a
\* release that satisfies it, and every transitive dependency of that release,
\* is in the artifact cache and has passed verify_artifact.
C21_AllDownloaded ==
  (download.pc = "done" /\ download.result = "Ok") =>
     \A k \in 1..Len(download.idents) :
        \E p \in FullIdents :
           /\ satisfies(p, download.idents[k])
           /\ \A d \in {p} \cup tdeps(p) :
                 download.cache[d] = "good" /\ d \in download.verified

\* C22 (as claimed): a verification failure (ident mismatch, wrong target, bad
\* signature) that get_cached_archive returns was retried: verify_artifact ran
\* more than once on the artifact, with a wait in between, before the failure
\* was returned.
C22_VerifyErrors == {"ArtifactIdentMismatch", "WrongActivePackageTarget", "CryptoError"}

C22_VerificationRetried ==
  (download.pc \in {"returned", "done"} /\ download.gca \in C22_VerifyErrors) =>
     (download.verifies > 1 /\ download.verifies <= RETRIES)

\* C25 (as claimed): a get_cached_archive call that returns DownloadFailed has
\* made exactly RETRIES fetch attempts, with a wait between consecutive ones,
\* and no verification.
C25_FetchAttempts ==
  (download.pc \in {"returned", "done"} /\ download.gca = "DownloadFailed") =>
     /\ download.tries = RETRIES
     /\ download.waits = RETRIES - 1
     /\ download.verifies = 0

\* ------------------------------------------------ claims on SpecDamaged
\* C23 (as claimed): a load that fails in a section (a frame length that is
\* malformed, a payload cut off by the end of the file, a payload that does not
\* decode) fails with a decode error.
C23_DecodeErrors ==
  (Ran /\ ~loaded.ok /\ loaded.failed \in SectionIds) => loaded.err = "Decode"

\* C24: a load that fails returns an error; if it fails in section k, the
\* server holds the records of the frames of every section before k, and
\* nothing of section k or of a later section.
C24_Index(id) == CHOOSE k \in 1..Len(SectionOrder) : SectionOrder[k] = id

C24_Start(j) == loaded.start + SumSeq(SubSeq(loaded.consumed, 1, j - 1))

C24_Abort ==
  (Ran /\ ~loaded.ok) =>
     /\ loaded.err \in {"DatFileIO", "Decode"}
     /\ IF loaded.failed \notin SectionIds
        THEN /\ loaded.failed = "header"
             /\ loaded.sections = <<>>
             /\ loaded.member_list = EmptyMemberList
             /\ loaded.stores = EmptyStores
        ELSE LET k == C24_Index(loaded.failed)
             IN /\ loaded.sections = SubSeq(SectionOrder, 1, k - 1)
                /\ \A j \in 1..Len(SectionOrder) :
                      LET id == SectionOrder[j]
                          got == ItemsOf(loaded.member_list, loaded.stores, id)
                      IN IF j < k
                         THEN LET r == read_and_process(disk, C24_Start(j),
                                                        loaded.header[id], id)
                              IN r.ok /\ got = {r.items[i] : i \in 1..Len(r.items)}
                         ELSE got = {}

C24_Witness ==
  /\ Ran /\ ~loaded.ok
  /\ loaded.failed \in RumorTypes
  /\ loaded.err = "Decode"
  /\ loaded.member_list # EmptyMemberList
  /\ stores[loaded.failed] # {}
  /\ HealthOf(loaded.member_list) = HealthOf(member_list)

\* C30: decoding a section of declared length L takes at most ceil(L / 8) turns
\* of the loop, the failing one included, and for L = 0 none: no byte is read
\* and no record is produced.
C30_Declared(k) == loaded.header[SectionsFor(loaded.version)[k]]

C30_Terminates ==
  Ran => \A k \in 1..Len(loaded.iters) :
            /\ 8 * loaded.iters[k] < C30_Declared(k) + 8
            /\ (C30_Declared(k) = 0) =>
                  /\ loaded.iters[k] = 0
                  /\ k <= Len(loaded.consumed)
                  /\ loaded.consumed[k] = 0

C30_Witness ==
  /\ Ran /\ ~loaded.ok
  /\ Len(loaded.iters) >= 2
  /\ loaded.iters[1] = 0
  /\ loaded.iters[Len(loaded.iters)] = 2
  /\ C30_Declared(Len(loaded.iters)) < U64Big

\* ------------------------------------------ claims on Spec: the section locks
\* C26: while a section is being serialized its table or store does not change
\* (a sweep or purge on it happens before the lock is taken or after it is
\* released); the frames written for the section are those of the table or
\* store as it is when the lock is released; and each section of the published
\* file holds its table or store as it was at one moment of the call.
C26_Step ==
  /\ (writer.lock # "none" /\ writer'.lock = writer.lock) =>
        ItemsOf(member_list', stores', writer.lock)
           = ItemsOf(member_list, stores, writer.lock)
  /\ (writer.pc = "frames" /\ writer'.pc \in {"lock", "seek"}) =>
        LET id == SectionOrder[writer.sec]
        IN /\ writer.yielded = ItemsOf(member_list, stores, id)
           /\ writer'.header[id] = FramesLength(id, ItemsOf(member_list, stores, id))
  /\ (writer.pc = "publish" /\ writer'.pc = "done") =>
        /\ \E c \in hist.seen : FileContent(disk').member_list = c.member_list
        /\ \A t \in RumorTypes :
              \E c \in hist.seen : FileContent(disk').stores[t] = c.stores[t]

C26_SectionAtomic == [][C26_Step]_vars

C26_Witness ==
  /\ writer.pc = "done"
  /\ \E t \in RumorTypes :
        /\ FileContent(disk).stores[t] # {}
        /\ stores[t] = {}
        /\ \E x \in hist.removed : x[1] = t

\* C27: the write call holds a lock only while it serializes a section, and
\* then the lock of that section alone, so that it has released each lock
\* before it takes the next; no step of the Expire loop is a step of a write;
\* and with both threads running every lock the write holds is released and
\* the write returns.
C27_OneLock ==
  /\ writer.lock \in {"none"} \cup SectionIds
  /\ (writer.lock # "none") =>
        (writer.pc = "frames" /\ writer.lock = SectionOrder[writer.sec])

C27_ExpireStep == (expire' # expire) => (writer' = writer /\ disk' = disk)

C28_Pcs == {"confirm", "depart", "now", "purge", "sleep"}

C28_LoopStep ==
  (expire' # expire) =>
     CASE expire.pc = "confirm" -> expire'.pc = "depart"
       [] expire.pc = "depart"  -> expire'.pc = "now"
       [] expire.pc = "now"     -> expire'.pc = "purge" /\ expire'.k = 1
       [] expire.pc = "purge"   ->
            IF expire.k < 6 THEN expire'.pc = "purge" /\ expire'.k = expire.k + 1
            ELSE expire'.pc = "sleep"
       [] expire.pc = "sleep"   -> expire'.pc = "confirm" /\ now' >= now
       [] OTHER -> FALSE

C28_LoopForever ==
  /\ [](expire.pc \in C28_Pcs)
  /\ [][C28_LoopStep]_vars
  /\ []<>(expire.pc = "sleep")
  /\ []<>(expire.pc = "confirm")

C28_Witness ==
  /\ expire.pc = "depart"
  /\ expire.now > 0
  /\ \E id \in DOMAIN member_list : <<id, "Departed">> \in hist.swept

\* ------------------------------------------------ claims on SpecOpen: the Header
\* C29: the Header that write hands to write_header, the Header a load has
\* decoded, and the Header that Header::from_bytes makes of the header bytes of
\* the file under any version byte, each have an entry for Membership and for
\* the six rumor types; Header::default(), which is what a DatFile holds until
\* read_header has succeeded, has none of them.
C29_Complete(h) == \A id \in SectionIds : Header_has(h, id)

C29_HeaderComplete ==
  /\ (writer.pc \in {"header", "flush", "publish", "done"}) => C29_Complete(writer.header)
  /\ (Ran /\ loaded.failed # "header") => C29_Complete(loaded.header)
  /\ (Len(disk) >= 1 + HEADER_VERSION_2_SIZE) =>
        \A v \in {1, HEADER_VERSION} \cup OtherVersions :
           LET n == IF v = 1 THEN HEADER_VERSION_1_SIZE ELSE HEADER_VERSION_2_SIZE
           IN C29_Complete(Header_from_bytes(Slice(disk, 1, 1 + n), v).header)
  /\ \A id \in SectionIds : ~Header_has(Header_default, id)
  /\ (~Ran \/ loaded.failed = "header") => loaded.header = Header_default

C29_Witness ==
  /\ writer.pc = "done"
  /\ C29_Complete(writer.header)
  /\ writer.header["membership"] > 0
  /\ Len(disk) >= 1 + HEADER_VERSION_2_SIZE
  /\ Ran /\ loaded.failed = "header"

\* ------------------------------------- claims on SpecOpen: the returned DatFile
\* C31 (as claimed): when read_or_create found no file or an empty one and
\* wrote the initial snapshot, read_into_mlr on the DatFile it returned reads
\* that snapshot to its end and leaves the server with the state that was
\* written.
C31_ReturnedLoads ==
  (dat_file.pc = "done" /\ writer.pc = "done" /\ Ran) =>
     /\ loaded.ok
     /\ loaded.sections = SectionOrder
     /\ loaded.pos = Len(disk)
     /\ [member_list |-> HealthOf(loaded.member_list), stores |-> loaded.stores]
           = FileContent(disk)

====
